---- MODULE Spec2Model ----
(***************************************************************************)
(* Registration form with admin review panel (src/server.js and the        *)
(* browser scripts src/public/js/admin.js, login script).                  *)
(*                                                                         *)
(* Strings are sequences of one-character strings, so that trimming,       *)
(* lower-casing, the phone pattern and parseInt are computed character by  *)
(* character.  The empty sequence stands for a falsy JavaScript value      *)
(* (undefined or ""): the handlers treat both alike.                       *)
(* Time is counted in units of half the duplicate window (15 days).        *)
(***************************************************************************)
EXTENDS Integers, Sequences, FiniteSets, TLC

VARIABLES
    store,      \* the registrations collection, in insertion order
    seenAt,     \* for each stored record: Len(store) when its findOne ran
    now,        \* Date.now()
    inflight,   \* POST /api/register handlers suspended at `await doc.save()`
    isAdmin,    \* req.session.isAdmin of each browser session
    lastEvent,  \* last login/logout/expiry event of each session
    resp        \* the response sent by the latest step (NoResponse: none sent)

vars == <<store, seenAt, now, inflight, isAdmin, lastEvent, resp>>

----------------------------------------------------------------------------
(* Bounds of the model *)

MaxStore == 2
MaxTime == 3

(* Duplicate window 30*24*60*60*1000 ms, in time units of 15 days *)
ThirtyDays == 2

(* Concurrent request handlers and browser sessions *)
Handlers == {"h1", "h2"}
Sessions == {"s1", "s2"}

ADMIN_USER == "admin"
ADMIN_PASS == "secret"

----------------------------------------------------------------------------
(* Characters and string helpers *)

Digits == {"0", "1", "2", "3", "4", "5", "6", "7", "8", "9"}
LowerLetters == {"a", "b", "c", "d", "j", "o"}
UpperLetters == {"A", "B", "C", "D", "J", "O"}
Whitespace == {" "}

LowerOf == ("A" :> "a") @@ ("B" :> "b") @@ ("C" :> "c") @@ ("D" :> "d")
           @@ ("J" :> "j") @@ ("O" :> "o")

DigitVal == ("0" :> 0) @@ ("1" :> 1) @@ ("2" :> 2) @@ ("3" :> 3) @@ ("4" :> 4)
            @@ ("5" :> 5) @@ ("6" :> 6) @@ ("7" :> 7) @@ ("8" :> 8) @@ ("9" :> 9)

Falsy(s) == s = <<>>

toLowerCase(s) ==
    [i \in 1..Len(s) |-> IF s[i] \in UpperLetters THEN LowerOf[s[i]] ELSE s[i]]

RECURSIVE trimStart(_)
trimStart(s) ==
    IF s # <<>> /\ s[1] \in Whitespace THEN trimStart(Tail(s)) ELSE s

RECURSIVE trimEnd(_)
trimEnd(s) ==
    IF s # <<>> /\ s[Len(s)] \in Whitespace
    THEN trimEnd(SubSeq(s, 1, Len(s) - 1))
    ELSE s

trim(s) == trimEnd(trimStart(s))

----------------------------------------------------------------------------
(* Validation: validateRegistration, src/server.js 86-92 *)

(* /^[0-9+\- ]{6,20}$/ *)
PhonePattern(s) ==
    /\ Len(s) >= 6
    /\ Len(s) <= 20
    /\ \A i \in 1..Len(s) : s[i] \in Digits \cup {"+", "-", " "}

(* validator.isEmail with default options, on the alphabet of the model:   *)
(* one "@", a non-empty dot-atom before it, a domain of at least two       *)
(* non-empty labels after it, the resp label of two or more letters.       *)
AtomChars == Digits \cup LowerLetters \cup UpperLetters
IsDotAtom(s) ==
    /\ s # <<>>
    /\ s[1] # "." /\ s[Len(s)] # "."
    /\ \A i \in 1..Len(s) : s[i] \in AtomChars \cup {"."}
    /\ \A i \in 1..(Len(s) - 1) : ~(s[i] = "." /\ s[i + 1] = ".")

isEmail(s) ==
    LET ats == {i \in 1..Len(s) : s[i] = "@"} IN
    /\ Cardinality(ats) = 1
    /\ LET at == CHOOSE i \in ats : TRUE
           user == SubSeq(s, 1, at - 1)
           domain == SubSeq(s, at + 1, Len(s))
           dots == {i \in 1..Len(domain) : domain[i] = "."}
       IN /\ IsDotAtom(user)
          /\ IsDotAtom(domain)
          /\ dots # {}
          /\ LET lastDot == CHOOSE i \in dots : \A j \in dots : j <= i
                 tld == SubSeq(domain, lastDot + 1, Len(domain))
             IN /\ Len(tld) >= 2
                /\ \A i \in 1..Len(tld) : tld[i] \in LowerLetters \cup UpperLetters

validateRegistration_shortcircuit(name, phone, email) ==
    IF Falsy(name) \/ Len(name) < 2 THEN <<"Invalid name">>
    ELSE IF Falsy(phone) \/ ~PhonePattern(phone) THEN <<"Invalid phone">>
    ELSE IF Falsy(email) \/ ~isEmail(email) THEN <<"Invalid email">>
    ELSE <<>>

validateRegistration(name, phone, email) ==
    (IF Falsy(name) \/ Len(name) < 2 THEN <<"Invalid name">> ELSE <<>>)
    \o (IF Falsy(phone) \/ ~PhonePattern(phone) THEN <<"Invalid phone">> ELSE <<>>)
    \o (IF Falsy(email) \/ ~isEmail(email) THEN <<"Invalid email">> ELSE <<>>)

(* errors.join(', ') *)
RECURSIVE join(_)
join(errors) ==
    IF errors = <<>> THEN <<>>
    ELSE IF Len(errors) = 1 THEN errors
    ELSE <<errors[1], ", ">> \o join(Tail(errors))

----------------------------------------------------------------------------
(* Registration schema, src/server.js 75-83 *)

(* The setters of each path (trim, lowercase).  Mongoose applies them when *)
(* a document is built and when a filter value is cast for a query.        *)
SetName(v) == trim(v)
SetPhone(v) == trim(v)
SetEmail(v) == trim(toLowerCase(v))

(* new Registration({ name, phone, email, city, address }) *)
NewRegistration(name, phone, email, city, address, t) ==
    [name |-> SetName(name), phone |-> SetPhone(phone), email |-> SetEmail(email),
     city |-> trim(city), address |-> trim(address), createdAt |-> t]

(* required: true fails for a string path holding the empty string *)
SchemaValid(doc) ==
    /\ doc.name # <<>>
    /\ doc.phone # <<>>
    /\ doc.email # <<>>

(* Registration.findOne({ $or: [{email}, {phone}], createdAt: {$gte: cutoff} }) *)
findOne_uncast(coll, email, phone, cutoff) ==
    \E i \in 1..Len(coll) :
        /\ coll[i].email = email \/ coll[i].phone = phone
        /\ coll[i].createdAt >= cutoff

findOne_exclusive(coll, email, phone, cutoff) ==
    \E i \in 1..Len(coll) :
        /\ coll[i].email = SetEmail(email) \/ coll[i].phone = SetPhone(phone)
        /\ coll[i].createdAt > cutoff

findOne(coll, email, phone, cutoff) ==
    \E i \in 1..Len(coll) :
        /\ coll[i].email = SetEmail(email) \/ coll[i].phone = SetPhone(phone)
        /\ coll[i].createdAt >= cutoff

----------------------------------------------------------------------------
(* Responses.  One record shape for every endpoint; a handler fills the    *)
(* fields of its own response.  storeCalls counts the store operations the *)
(* handler issued before it answered; at is the time the request arrived.  *)

NoResponse ==
    [op |-> "none", status |-> 0, sess |-> "none",
     name |-> <<>>, phone |-> <<>>, email |-> <<>>, at |-> 0,
     username |-> "", password |-> "",
     message |-> <<>>, storeCalls |-> 0,
     page |-> 0, limit |-> 0, skip |-> 0,
     data |-> <<>>, total |-> 0, pages |-> 0, csv |-> <<>>]

Idle ==
    [state |-> "idle", name |-> <<>>, phone |-> <<>>, email |-> <<>>,
     seen |-> 0, at |-> 0]

Saving(h) == inflight[h].state = "saving"

RegisterResponse(status, name, phone, email, at, message, calls) ==
    [NoResponse EXCEPT !.op = "register", !.status = status, !.name = name,
                       !.phone = phone, !.email = email, !.at = at,
                       !.message = message, !.storeCalls = calls]

----------------------------------------------------------------------------
(* POST /api/register, src/server.js 95-115.  The handler suspends at      *)
(* `await Registration.findOne` and at `await doc.save()`; the two store   *)
(* operations are the two steps of the model.                              *)

Init ==
    /\ store = <<>>
    /\ seenAt = <<>>
    /\ now = 0
    /\ inflight = [h \in Handlers |-> Idle]
    /\ isAdmin = [s \in Sessions |-> FALSE]
    /\ lastEvent = [s \in Sessions |-> "none"]
    /\ resp = NoResponse

(* Room for one more record, counting the inserts already on their way *)
HasRoom == Len(store) + Cardinality({h \in Handlers : Saving(h)}) < MaxStore

(* lines 97-106: validation, cutoff, duplicate query *)
RegisterCheck(h, name, phone, email) ==
    /\ inflight[h].state = "idle"
    /\ HasRoom
    /\ LET errors == validateRegistration(name, phone, email) IN
       IF errors # <<>>
       THEN /\ resp' = RegisterResponse(400, name, phone, email, now, join(errors), 0)
            /\ UNCHANGED inflight
       ELSE IF findOne(store, email, phone, now - ThirtyDays)
       THEN /\ resp' = RegisterResponse(409, name, phone, email, now,
                                        <<"Already registered recently.">>, 1)
            /\ UNCHANGED inflight
       ELSE /\ inflight' = [inflight EXCEPT ![h] =
                   [state |-> "saving", name |-> name, phone |-> phone,
                    email |-> email, seen |-> Len(store), at |-> now]]
            /\ resp' = NoResponse
    /\ UNCHANGED <<store, seenAt, now, isAdmin, lastEvent>>

(* lines 108-114: build the document (createdAt defaults to Date.now()),   *)
(* save it; a schema validation error is caught and answered 500.          *)
RegisterSave_unvalidated(h) ==
    /\ Saving(h)
    /\ LET r == inflight[h]
           doc == NewRegistration(r.name, r.phone, r.email, <<>>, <<>>, now)
       IN /\ store' = Append(store, doc)
          /\ seenAt' = Append(seenAt, r.seen)
          /\ resp' = IF SchemaValid(doc)
                     THEN RegisterResponse(201, r.name, r.phone, r.email, r.at,
                                           <<"Registration saved">>, 2)
                     ELSE RegisterResponse(500, r.name, r.phone, r.email, r.at,
                                           <<"Server error">>, 2)
    /\ inflight' = [inflight EXCEPT ![h] = Idle]
    /\ UNCHANGED <<now, isAdmin, lastEvent>>

RegisterSave(h) ==
    /\ Saving(h)
    /\ LET r == inflight[h]
           doc == NewRegistration(r.name, r.phone, r.email, <<>>, <<>>, now)
       IN IF SchemaValid(doc)
          THEN /\ store' = Append(store, doc)
               /\ seenAt' = Append(seenAt, r.seen)
               /\ resp' = RegisterResponse(201, r.name, r.phone, r.email, r.at,
                                           <<"Registration saved">>, 2)
          ELSE /\ resp' = RegisterResponse(500, r.name, r.phone, r.email, r.at,
                                           <<"Server error">>, 2)
               /\ UNCHANGED <<store, seenAt>>
    /\ inflight' = [inflight EXCEPT ![h] = Idle]
    /\ UNCHANGED <<now, isAdmin, lastEvent>>

(* The clock *)
Tick ==
    /\ now < MaxTime
    /\ now' = now + 1
    /\ resp' = NoResponse
    /\ UNCHANGED <<store, seenAt, inflight, isAdmin, lastEvent>>

(* GET /health, src/server.js 118 *)
Health ==
    /\ resp' = [NoResponse EXCEPT !.op = "health", !.status = 200]
    /\ UNCHANGED <<store, seenAt, now, inflight, isAdmin, lastEvent>>

----------------------------------------------------------------------------
(* Admin session, src/server.js 121-146 *)

(* requireLogin: req.session && req.session.isAdmin *)
requireLogin_open(s) == TRUE

requireLogin(s) == isAdmin[s]

Unauthorized(op, s) ==
    [NoResponse EXCEPT !.op = op, !.status = 401, !.sess = s,
                       !.message = <<"Not logged in">>]

(* POST /admin/login *)
CredentialsOk_userOnly(username, password) == username = ADMIN_USER

CredentialsOk(username, password) ==
    username = ADMIN_USER /\ password = ADMIN_PASS

LoginResponse(s, status, username, password, message) ==
    [NoResponse EXCEPT !.op = "login", !.status = status, !.sess = s,
                       !.username = username, !.password = password,
                       !.message = message]

(* lastEvent records a login when the submitted credentials are the        *)
(* configured ones, whatever the handler then does.                        *)
Login(s, username, password) ==
    /\ IF CredentialsOk(username, password)
       THEN /\ isAdmin' = [isAdmin EXCEPT ![s] = TRUE]
            /\ resp' = LoginResponse(s, 200, username, password,
                                     <<"Logged in successfully">>)
       ELSE /\ resp' = LoginResponse(s, 401, username, password,
                                     <<"Invalid credentials">>)
            /\ UNCHANGED isAdmin
    /\ lastEvent' = IF username = ADMIN_USER /\ password = ADMIN_PASS
                    THEN [lastEvent EXCEPT ![s] = "login"]
                    ELSE lastEvent
    /\ UNCHANGED <<store, seenAt, now, inflight>>

(* GET /admin/logout: req.session.destroy *)
Logout(s) ==
    /\ isAdmin' = [isAdmin EXCEPT ![s] = FALSE]
    /\ lastEvent' = [lastEvent EXCEPT ![s] = "logout"]
    /\ resp' = [NoResponse EXCEPT !.op = "logout", !.status = 200, !.sess = s,
                                  !.message = <<"Logged out">>]
    /\ UNCHANGED <<store, seenAt, now, inflight>>

(* The session cookie reaches its maxAge (src/server.js 60): the session   *)
(* is gone, and with it the flag.                                          *)
Expire(s) ==
    /\ isAdmin[s]
    /\ isAdmin' = [isAdmin EXCEPT ![s] = FALSE]
    /\ lastEvent' = [lastEvent EXCEPT ![s] = "expired"]
    /\ resp' = NoResponse
    /\ UNCHANGED <<store, seenAt, now, inflight>>

----------------------------------------------------------------------------
(* GET /admin/registrations, src/server.js 154-169 *)

NaN == [nan |-> TRUE, val |-> 0]

RECURSIVE digitsValue(_, _)
digitsValue(s, acc) ==
    IF s # <<>> /\ s[1] \in Digits
    THEN digitsValue(Tail(s), 10 * acc + DigitVal[s[1]])
    ELSE acc

(* parseInt: leading whitespace, an optional sign, then the longest prefix *)
(* of decimal digits; NaN when there is none.                              *)
parseInt(q) ==
    LET t == trimStart(q)
        signed == t # <<>> /\ t[1] \in {"+", "-"}
        body == IF signed THEN Tail(t) ELSE t
    IN IF body = <<>> \/ body[1] \notin Digits THEN NaN
       ELSE [nan |-> FALSE,
             val |-> IF signed /\ t[1] = "-" THEN 0 - digitsValue(body, 0)
                     ELSE digitsValue(body, 0)]

(* x || d : NaN and 0 are falsy *)
OrDefault(x, d) == IF x.nan \/ x.val = 0 THEN d ELSE x.val

DefaultPage == 1
DefaultLimit == 20

(* Math.ceil(a / b) for a >= 0 and b # 0 *)
MathCeil(a, b) ==
    IF b > 0 THEN (a + b - 1) \div b ELSE 0 - (a \div (0 - b))

Min(a, b) == IF a < b THEN a ELSE b

IndexOrders(n) ==
    {p \in [1..n -> 1..n] : \A i, j \in 1..n : i # j => p[i] # p[j]}

(* .sort({ createdAt: -1 }): every order of the collection with createdAt  *)
(* descending; the order among equal timestamps is the store's choice.     *)
SortedByCreatedAtDesc(coll) ==
    {sorted \in {[i \in 1..Len(coll) |-> coll[p[i]]] : p \in IndexOrders(Len(coll))} :
        \A i \in 1..(Len(sorted) - 1) : sorted[i].createdAt >= sorted[i + 1].createdAt}

(* .skip(skip).limit(limit) *)
SkipLimit_offbyone(sorted, skip, limit) ==
    SubSeq(sorted, skip + 1, Min(skip + limit + 1, Len(sorted)))

SkipLimit(sorted, skip, limit) ==
    SubSeq(sorted, skip + 1, Min(skip + limit, Len(sorted)))

ServerError(op, s, page, limit, skip, calls) ==
    [NoResponse EXCEPT !.op = op, !.status = 500, !.sess = s,
                       !.message = <<"Server error">>, !.storeCalls = calls,
                       !.page = page, !.limit = limit, !.skip = skip]

(* The response of GET /admin/registrations for session s.  sorted is the  *)
(* store's order for the sort; negativeLimit is what the store does with a *)
(* negative limit: it rejects the query or returns one batch of -limit.    *)
ParsePage(pageQ) == OrDefault(parseInt(pageQ), DefaultPage)

ParseLimit(limitQ) == OrDefault(parseInt(limitQ), DefaultLimit)

(* What the store may do with the limit of this request *)
NegativeLimitOutcomes(limitQ) ==
    IF ParseLimit(limitQ) < 0 THEN {"reject", "batch"} ELSE {"batch"}

Registrations(s, pageQ, limitQ, sorted, negativeLimit) ==
    IF ~requireLogin(s) THEN Unauthorized("list", s)
    ELSE LET page == ParsePage(pageQ)
             limit == ParseLimit(limitQ)
             skip == (page - 1) * limit
         IN IF skip < 0 \/ (limit < 0 /\ negativeLimit = "reject")
            THEN ServerError("list", s, page, limit, skip, 2)
            ELSE [NoResponse EXCEPT
                     !.op = "list", !.status = 200, !.sess = s, !.storeCalls = 2,
                     !.page = page, !.limit = limit, !.skip = skip,
                     !.data = SkipLimit(sorted, skip, IF limit < 0 THEN 0 - limit ELSE limit),
                     !.total = Len(store),
                     !.pages = MathCeil(Len(store), limit)]

ListRegistrations(s, pageQ, limitQ) ==
    /\ \E sorted \in SortedByCreatedAtDesc(store),
          negativeLimit \in NegativeLimitOutcomes(limitQ) :
           resp' = Registrations(s, pageQ, limitQ, sorted, negativeLimit)
    /\ UNCHANGED <<store, seenAt, now, inflight, isAdmin, lastEvent>>

----------------------------------------------------------------------------
(* CSV export, src/public/js/admin.js 46-63 *)

(* limit=9999 of the export request, scaled to the size of the model *)
CsvLimitQuery == <<"1">>

RECURSIVE decimal(_)
decimal(n) ==
    IF n < 10 THEN <<CHOOSE c \in Digits : DigitVal[c] = n>>
    ELSE decimal(n \div 10) \o <<CHOOSE c \in Digits : DigitVal[c] = n % 10>>

(* new Date(r.createdAt).toISOString(), on the model's clock *)
toISOString(t) == <<"T">> \o decimal(t) \o <<"Z">>

Quoted(field) == <<"\"">> \o field \o <<"\"">>

CsvRow(r) ==
    Quoted(r.name) \o <<",">> \o Quoted(r.phone) \o <<",">> \o Quoted(r.email)
    \o <<",">> \o Quoted(r.city) \o <<",">> \o Quoted(r.address)
    \o <<",">> \o Quoted(toISOString(r.createdAt)) \o <<"\n">>

RECURSIVE CsvRows(_)
CsvRows(data) ==
    IF data = <<>> THEN <<>> ELSE CsvRow(data[1]) \o CsvRows(Tail(data))

CsvHeader == <<"Name,Phone,Email,City,Address,Date", "\n">>

(* downloadCsv click handler: one request, then the file is assembled *)
DownloadCsv(s) ==
    /\ \E sorted \in SortedByCreatedAtDesc(store),
          negativeLimit \in NegativeLimitOutcomes(CsvLimitQuery) :
           LET res == Registrations(s, <<"1">>, CsvLimitQuery, sorted, negativeLimit) IN
           resp' = IF res.status # 200
                   THEN [res EXCEPT !.op = "export"]
                   ELSE [res EXCEPT !.op = "export",
                                    !.csv = CsvHeader \o CsvRows(res.data)]
    /\ UNCHANGED <<store, seenAt, now, inflight, isAdmin, lastEvent>>

----------------------------------------------------------------------------
(* Request inputs *)

Jo == <<"J", "o">>
BlankName == <<" ", " ">>
ShortName == <<"J">>

Phone1 == <<"1", "2", "3", "4", "5", "6">>
Phone1Padded == <<" ", "1", "2", "3", "4", "5", "6">>
Phone2 == <<"6", "5", "4", "3", "2", "1">>
Phone3 == <<"+", "9", "1", "-", "2", "0", "0">>
BlankPhone == <<" ", " ", " ", " ", " ", " ">>
ShortPhone == <<"1", "2", "3", "4", "5">>
LetterPhone == <<"1", "2", "3", "4", "5", "a">>

EmailA == <<"a", "@", "b", ".", "c", "o">>
EmailAUpper == <<"A", "@", "b", ".", "c", "o">>
EmailC == <<"c", "@", "b", ".", "c", "o">>
EmailD == <<"d", "@", "b", ".", "c", "o">>
NoAtEmail == <<"a", "b", ".", "c", "o">>
NoTldEmail == <<"a", "@", "b">>

(* Two handlers racing: same or different contact details *)
RaceNames == {Jo, BlankName, ShortName}
RacePhones == {Phone1, Phone2}
RaceEmails == {EmailA}

(* One submit at a time: well-formed and malformed fields, and values that *)
(* differ only in case or surrounding blanks                               *)
SeqNames == {Jo, BlankName}
SeqPhones == {Phone1, Phone1Padded, Phone2}
SeqEmails == {EmailA, EmailAUpper, EmailC}

(* Every combination of well-formed and malformed fields *)
ValNames == {Jo, ShortName, <<>>}
ValPhones == {Phone1, BlankPhone, ShortPhone, LetterPhone, <<>>}
ValEmails == {EmailA, NoAtEmail, NoTldEmail, <<>>}

(* Filling the collection for the admin listing *)
ListPeople ==
    {[phone |-> Phone1, email |-> EmailA], [phone |-> Phone2, email |-> EmailC],
     [phone |-> Phone3, email |-> EmailD]}

Usernames == {ADMIN_USER, "guest"}
Passwords == {ADMIN_PASS, "letmein"}

PageQueries == {<<>>, <<"x">>, <<"0">>, <<"-", "1">>, <<"2">>, <<"3">>, <<" ", "2", "x">>}
LimitQueries == {<<>>, <<"0">>, <<"-", "2">>, <<"1">>, <<"2">>}

----------------------------------------------------------------------------
(* Specifications *)

(* The whole server: two register handlers interleaving at their awaits,   *)
(* one admin session.                                                      *)
Next ==
    \/ Tick
    \/ \E h \in Handlers, name \in RaceNames, phone \in RacePhones, email \in RaceEmails :
           RegisterCheck(h, name, phone, email)
    \/ \E h \in Handlers : RegisterSave(h)
    \/ Login("s1", ADMIN_USER, ADMIN_PASS)
    \/ Logout("s1")
    \/ ListRegistrations("s1", <<>>, <<>>)
    \/ DownloadCsv("s1")
    \/ Health

Spec == Init /\ [][Next]_vars

(* Submits processed one at a time *)
SeqNext ==
    \/ Tick
    \/ \E name \in SeqNames, phone \in SeqPhones, email \in SeqEmails :
           RegisterCheck("h1", name, phone, email)
    \/ RegisterSave("h1")

SeqSpec == Init /\ [][SeqNext]_vars

(* Validation of every kind of input *)
ValNext ==
    \/ Tick
    \/ \E name \in ValNames, phone \in ValPhones, email \in ValEmails :
           RegisterCheck("h1", name, phone, email)
    \/ RegisterSave("h1")

ValSpec == Init /\ [][ValNext]_vars

(* Two browser sessions against the admin gate *)
AuthNext ==
    \/ \E phone \in RacePhones, email \in RaceEmails : RegisterCheck("h1", Jo, phone, email)
    \/ RegisterSave("h1")
    \/ \E s \in Sessions, u \in Usernames, p \in Passwords : Login(s, u, p)
    \/ \E s \in Sessions : Logout(s)
    \/ \E s \in Sessions : Expire(s)
    \/ \E s \in Sessions : ListRegistrations(s, <<>>, <<>>)
    \/ \E s \in Sessions : DownloadCsv(s)

AuthSpec == Init /\ [][AuthNext]_vars

(* The admin listing over every collection the form can produce *)
ListNext ==
    \/ Tick
    \/ \E person \in ListPeople : RegisterCheck("h1", Jo, person.phone, person.email)
    \/ RegisterSave("h1")
    \/ Login("s1", ADMIN_USER, ADMIN_PASS)
    \/ \E pageQ \in PageQueries, limitQ \in LimitQueries :
           ListRegistrations("s1", pageQ, limitQ)
    \/ DownloadCsv("s1")

ListSpec == Init /\ [][ListNext]_vars

----------------------------------------------------------------------------
(* Properties *)

(* Contact details as the collection holds them *)
StoredEmail(email) == trim(toLowerCase(email))
StoredPhone(phone) == trim(phone)

(* A registration of coll with the same email or the same phone, created   *)
(* at or after at - 30 days                                                *)
RecentMatch(coll, email, phone, at) ==
    \E i \in 1..Len(coll) :
        /\ coll[i].email = StoredEmail(email) \/ coll[i].phone = StoredPhone(phone)
        /\ coll[i].createdAt >= at - ThirtyDays

(* The collection as the answered submit found it *)
StoreBefore == IF resp.status = 201 THEN SubSeq(store, 1, Len(store) - 1) ELSE store

(* C1: a submit with valid name, phone and email, run without another     *)
(* submit interleaving, is answered 409 if and only if the store holds a   *)
(* registration with the same email or phone created within the 30 days    *)
(* before its arrival, and 201 otherwise.                                  *)
C1_SubmitOutcome ==
    (resp.op = "register" /\ resp.status # 400) =>
        IF RecentMatch(StoreBefore, resp.email, resp.phone, resp.at)
        THEN resp.status = 409
        ELSE resp.status = 201

(* C2: the store changes only by a submit answered 201, which appends     *)
(* exactly one record; no step removes or alters a stored record.          *)
C2_StoreFrame ==
    [][/\ Len(store') >= Len(store)
       /\ SubSeq(store', 1, Len(store)) = store
       /\ Len(store') = Len(store)
              + (IF resp'.op = "register" /\ resp'.status = 201 THEN 1 ELSE 0)]_vars

C2_Witness ==
    /\ resp.op = "register"
    /\ resp.status = 500
    /\ Len(store) >= 1

(* C3: a request to the admin listing or the CSV export by a session      *)
(* whose is-admin flag is not set is answered 401 and carries nothing read *)
(* from the store.                                                         *)
C3_GateBeforeStore ==
    (resp.op \in {"list", "export"} /\ ~isAdmin[resp.sess]) =>
        /\ resp.status = 401
        /\ resp.storeCalls = 0
        /\ resp.data = <<>>
        /\ resp.total = 0
        /\ resp.csv = <<>>

C3_Witness ==
    /\ resp.op = "list"
    /\ resp.status = 401
    /\ lastEvent[resp.sess] = "logout"
    /\ Len(store) >= 1

(* The rearrangements of coll with createdAt descending *)
DescendingOrdersOf(coll) ==
    {sorted \in {[i \in 1..Len(coll) |-> coll[p[i]]] : p \in IndexOrders(Len(coll))} :
        \A i, j \in 1..Len(coll) : i < j => sorted[i].createdAt >= sorted[j].createdAt}

(* C4: for page >= 1 and limit >= 1 the listing returns at most limit     *)
(* items, the slice from (page-1)*limit of the registrations in createdAt  *)
(* descending order; total is the number of registrations; pages is        *)
(* ceil(total/limit); beyond the last page the data is empty.              *)
C4_Pagination ==
    (resp.op = "list" /\ resp.status = 200 /\ resp.page >= 1 /\ resp.limit >= 1) =>
        LET n == Len(store)
            first == (resp.page - 1) * resp.limit
        IN /\ Len(resp.data) <= resp.limit
           /\ resp.total = n
           /\ resp.pages * resp.limit >= n
           /\ (resp.pages - 1) * resp.limit < n
           /\ resp.page > resp.pages => resp.data = <<>>
           /\ \E sorted \in DescendingOrdersOf(store) :
                  /\ Len(resp.data) = (IF first >= n THEN 0
                                       ELSE IF n - first < resp.limit THEN n - first
                                       ELSE resp.limit)
                  /\ \A i \in 1..Len(resp.data) : resp.data[i] = sorted[first + i]

C4_Witness ==
    /\ resp.op = "list"
    /\ resp.status = 200
    /\ resp.page = 2
    /\ resp.limit = 1
    /\ Len(store) = 2
    /\ store[1].createdAt < store[2].createdAt
    /\ resp.data = <<store[1]>>

(* C5: for each session the is-admin flag is set exactly when the         *)
(* session's last login/logout/expiry event is a login with the configured *)
(* credentials; any other login is answered 401; a session whose last      *)
(* event is not such a login is answered 401 by the admin endpoints.       *)
C5_SessionFlag ==
    /\ \A s \in Sessions : isAdmin[s] <=> lastEvent[s] = "login"
    /\ resp.op = "login" =>
           resp.status = (IF resp.username = ADMIN_USER /\ resp.password = ADMIN_PASS
                          THEN 200 ELSE 401)
    /\ (resp.op \in {"list", "export"} /\ lastEvent[resp.sess] # "login") =>
           resp.status = 401

C5_Witness ==
    /\ resp.op = "list"
    /\ resp.status = 401
    /\ resp.sess = "s1"
    /\ lastEvent["s1"] = "logout"
    /\ isAdmin["s2"]

(* C6: whatever the page and limit query parameters, the page and limit   *)
(* the listing uses are >= 1 and the skip is never negative.               *)
C6_PageAndLimitAtLeastOne ==
    (resp.op = "list" /\ resp.status # 401) =>
        /\ resp.page >= 1
        /\ resp.limit >= 1
        /\ resp.skip >= 0

NameMalformed(name) == name = <<>> \/ Len(name) < 2
PhoneMalformed(phone) == phone = <<>> \/ ~PhonePattern(phone)
EmailMalformed(email) == email = <<>> \/ ~isEmail(email)

Occurrences(seq, x) == Cardinality({i \in 1..Len(seq) : seq[i] = x})

MalformedCount(name, phone, email) ==
    (IF NameMalformed(name) THEN 1 ELSE 0) + (IF PhoneMalformed(phone) THEN 1 ELSE 0)
    + (IF EmailMalformed(email) THEN 1 ELSE 0)

(* C7: validation reports exactly one message for each malformed field    *)
(* and none for a well-formed one; the submit is answered 400 with the     *)
(* messages joined, before any store operation, exactly when some field is *)
(* malformed.                                                              *)
C7_ValidationAccumulates ==
    /\ resp.op = "register" =>
        LET k == MalformedCount(resp.name, resp.phone, resp.email) IN
        /\ resp.status = 400 <=> k > 0
        /\ resp.status = 400 =>
            /\ Occurrences(resp.message, "Invalid name")
                   = (IF NameMalformed(resp.name) THEN 1 ELSE 0)
            /\ Occurrences(resp.message, "Invalid phone")
                   = (IF PhoneMalformed(resp.phone) THEN 1 ELSE 0)
            /\ Occurrences(resp.message, "Invalid email")
                   = (IF EmailMalformed(resp.email) THEN 1 ELSE 0)
            /\ Occurrences(resp.message, ", ") = k - 1
            /\ Len(resp.message) = 2 * k - 1
            /\ resp.storeCalls = 0
    /\ \A h \in Handlers :
           Saving(h) => MalformedCount(inflight[h].name, inflight[h].phone,
                                       inflight[h].email) = 0

C7_Witness ==
    /\ resp.op = "register"
    /\ resp.status = 400
    /\ Len(resp.message) = 5
    /\ Len(store) >= 1

LineCount(csv) == Occurrences(csv, "\n")

(* C8: the CSV export of a store of n registrations has n + 1 lines.      *)
C8_ExportHasEveryRecord ==
    (resp.op = "export" /\ resp.status = 200) =>
        LineCount(resp.csv) = Len(store) + 1

Conflict(r1, r2) ==
    /\ r1.email = r2.email \/ r1.phone = r2.phone
    /\ r1.createdAt - r2.createdAt <= ThirtyDays
    /\ r2.createdAt - r1.createdAt <= ThirtyDays

(* C9: two stored registrations with the same email or phone and          *)
(* createdAt within 30 days of each other arise only when the duplicate    *)
(* check of the later one ran before the earlier one was inserted; and the *)
(* inserts of racing submits leave every other record in place.            *)
C9_DuplicatesOnlyByRace ==
    /\ [](\A i, j \in 1..Len(store) :
              (i < j /\ Conflict(store[i], store[j])) => seenAt[j] < i)
    /\ [][SubSeq(store', 1, Len(store)) = store]_vars

C9_Witness ==
    /\ Len(store) >= 2
    /\ store[1].email = store[2].email
    /\ Conflict(store[1], store[2])
    /\ seenAt[1] = 0
    /\ seenAt[2] = 0
    /\ \A h \in Handlers : ~Saving(h)

(* C10: with submits processed one at a time, no two stored registrations *)
(* have the same stored email or the same stored phone with createdAt 30   *)
(* days or less apart.                                                     *)
C10_NoRecentDuplicates ==
    \A i, j \in 1..Len(store) : i < j => ~Conflict(store[i], store[j])

C10_Witness ==
    /\ Len(store) >= 2
    /\ store[1].email = store[2].email
    /\ store[1].phone = store[2].phone
    /\ store[2].createdAt - store[1].createdAt > ThirtyDays

====
